---------------------------- MODULE Spec2Model ----------------------------
(***************************************************************************)
(* Model of the relay's two core components:                               *)
(*   - relay/selector.rs    : the single-threaded reactor (Selector)       *)
(*   - relay/ipv4_header.rs : the IPv4 header codec                        *)
(*                                                                         *)
(* Spec       is the reactor: every public method of Selector is one       *)
(*            action; the callers (dispatch loop, handler bodies) are the  *)
(*            environment and may call the methods in any order.           *)
(* HeaderSpec is the codec: a buffer is drawn from a bounded family and    *)
(*            the codec's functions are applied to it.                     *)
(* ViewSpec   is the codec's mutable view: a header is parsed and the      *)
(*            view's setters, swap and checksum are applied in any order.  *)
(***************************************************************************)
EXTENDS Integers, Sequences, FiniteSets, TLC

VARIABLES
    handlers,          \* Selector.handlers : Slab<SelectionHandler, Token>
    tokens_to_remove,  \* Selector.tokens_to_remove : Vec<Token>
    poll,              \* Selector.poll : the OS poller's registration table
    events,            \* events of the current batch not yet dispatched
    running,           \* handlers whose on_ready is in progress (RefCell borrows)
    last,              \* the last Selector call and how it ended
    outstanding,       \* history: tokens returned by register and not freed since
    polled,            \* history: tokens present and not pending when poll() returned
    cleaned,           \* history: no poll() since the last clean_removed_tokens
    os_failed,         \* history: some OS call has returned an error
    dup_register,      \* history: Poll::register was issued on a registered handle
    raw,               \* codec: the caller-owned byte buffer
    data,              \* codec: IPv4HeaderData
    peeked,            \* codec: the last result of peek_version_length
    hcall              \* codec: the last call made on the codec

svars == <<handlers, tokens_to_remove, poll, events, running, last,
           outstanding, polled, cleaned, os_failed, dup_register>>
hvars == <<raw, data, peeked, hcall>>
vars == <<handlers, tokens_to_remove, poll, events, running, last,
          outstanding, polled, cleaned, os_failed, dup_register,
          raw, data, peeked, hcall>>

---------------------------------------------------------------------------
(* Bounds of the model *)

\* Slab::with_capacity(1024), scaled down
Capacity == 2
\* number of distinct handles (sockets), each with its own handler
NumHandles == 2
\* longest batch of events one poll() returns
MaxEvents == 2
\* deepest nesting of run_handler calls
MaxDepth == 2

Handles == 1 .. NumHandles
\* token values a caller can present: the slab's keys and one key beyond it
TokenValues == 0 .. Capacity
\* Ready: 0 is Ready::empty(), 1 readable, 2 writable
Interests == {0, 1, 2}

---------------------------------------------------------------------------
(* slab::Slab<SelectionHandler, Token> as the Selector uses it: a dense     *)
(* vector of entries, the vacant ones chained into a free list.  Token t is *)
(* entry t + 1 of the sequence.                                             *)

\* SelectionHandler { handler, registered }; SelectionHandler::new sets
\* registered to true.  The handler is named by the handle it serves.
SelectionHandler(h, r) ==
    [filled |-> TRUE, handler |-> h, registered |-> r, next |-> 0]

\* a vacant entry holding the next vacant index
Vacant(n) == [filled |-> FALSE, handler |-> 0, registered |-> FALSE, next |-> n]

\* Slab::with_capacity
SlabNew == [entries |-> <<>>, next |-> 0]

\* handlers.get_mut(token).is_some()
SlabContains(s, t) == t < Len(s.entries) /\ s.entries[t + 1].filled

\* handlers.get_mut(token).unwrap()
SlabGet(s, t) == s.entries[t + 1]

\* handlers.insert(..).is_ok(): the slab never grows past its capacity
SlabHasRoom(s) == s.next < Capacity

\* the token handlers.insert(..) returns when it succeeds
SlabNextToken(s) == s.next

\* handlers.insert(val), when there is room
SlabInsert(s, val) ==
    LET idx == s.next IN
    [entries |-> IF idx = Len(s.entries)
                   THEN Append(s.entries, val)
                   ELSE [s.entries EXCEPT ![idx + 1] = val],
     next    |-> IF idx < Len(s.entries)
                   THEN s.entries[idx + 1].next
                   ELSE idx + 1]

\* handlers.remove(token), for a token the slab contains
SlabRemove(s, t) ==
    [entries |-> [s.entries EXCEPT ![t + 1] = Vacant(s.next)],
     next    |-> t]

\* assignment to selection_handler.registered through get_mut
SlabSetRegistered(s, t, r) ==
    [s EXCEPT !.entries[t + 1].registered = r]

\* the tokens of the slots present in the table
Present(s) == {t \in 0 .. Capacity - 1 : SlabContains(s, t)}

---------------------------------------------------------------------------
(* mio::Poll as the Selector uses it: per handle, whether it is registered *)
(* and under which token and interest.  A call fails when the environment  *)
(* makes it fail (ok = FALSE) and when the poller rejects it: register of  *)
(* an empty interest or of a registered handle, reregister or deregister   *)
(* of a handle that is not registered.  A failed call changes nothing.     *)

NoReg == [registered |-> FALSE, token |-> 0, interest |-> 0]
Reg(token, interest) == [registered |-> TRUE, token |-> token, interest |-> interest]

PollNew == [h \in Handles |-> NoReg]

\* poll.register(handle, token, interest, opts)
PollRegister(p, h, token, interest, ok) ==
    IF ok /\ interest # 0 /\ ~p[h].registered
      THEN [poll |-> [p EXCEPT ![h] = Reg(token, interest)], ok |-> TRUE]
      ELSE [poll |-> p, ok |-> FALSE]

\* poll.reregister(handle, token, interest, opts)
PollReregister(p, h, token, interest, ok) ==
    IF ok /\ interest # 0 /\ p[h].registered
      THEN [poll |-> [p EXCEPT ![h] = Reg(token, interest)], ok |-> TRUE]
      ELSE [poll |-> p, ok |-> FALSE]

\* poll.deregister(handle)
PollDeregister(p, h, ok) ==
    IF ok /\ p[h].registered
      THEN [poll |-> [p EXCEPT ![h] = NoReg], ok |-> TRUE]
      ELSE [poll |-> p, ok |-> FALSE]

\* the OS call a Selector method issues, "none" when it issues none
PollCall(p, call, h, token, interest, ok) ==
    CASE call = "register"   -> PollRegister(p, h, token, interest, ok)
      [] call = "reregister" -> PollReregister(p, h, token, interest, ok)
      [] call = "deregister" -> PollDeregister(p, h, ok)
      [] OTHER               -> [poll |-> p, ok |-> TRUE]

---------------------------------------------------------------------------
(* The Selector *)

NoToken == -1

Range(s) == {s[i] : i \in 1 .. Len(s)}

\* op: the method; token: its token argument (register: the token it
\* returned); result: "ok", "err" (io::Error) or "abort" (panic); os: the OS
\* call it issued; batch: run_handler was called on an event of the batch
Call(op, token, result, os, batch) ==
    [op |-> op, token |-> token, result |-> result, os |-> os, batch |-> batch]

Result(ok) == IF ok THEN "ok" ELSE "err"

\* a panic unwinds out of the relay: nothing is called afterwards
Alive == last.result # "abort"

\* the handle (and its handler) is not in use, so a caller may register it
HandleFree(h) ==
    /\ \A t \in Present(handlers) : SlabGet(handlers, t).handler # h
    /\ ~poll[h].registered
    /\ outstanding[h] = NoToken
    /\ \A i \in 1 .. Len(running) : running[i].handler # h

\* IPv4HeaderData before anything is parsed into it
NoData == [version |-> 0, header_length |-> 0, total_length |-> 0,
           protocol |-> "OTHER", source |-> <<0, 0>>, destination |-> <<0, 0>>]

\* the codec is not used
HeaderIdle == raw = <<>> /\ data = NoData /\ peeked = <<>> /\ hcall = "none"

\* Selector::new
SelectorNew ==
    /\ handlers = SlabNew
    /\ tokens_to_remove = <<>>
    /\ poll = PollNew
    /\ events = <<>>
    /\ running = <<>>
    /\ last = Call("new", NoToken, "ok", "none", FALSE)
    /\ outstanding = [h \in Handles |-> NoToken]
    /\ polled = {}
    /\ cleaned = TRUE
    /\ os_failed = FALSE
    /\ dup_register = FALSE

Init == SelectorNew /\ HeaderIdle

\* the outcome as it would be with unwrap() on the insert's result
CannotAllocate_Unwrap == "abort"

\* the outcome of register on a full table:
\* map_err(|_| io::Error::new(.., "Cannot allocate slab slot"))?
CannotAllocate == "err"

\* Selector::register(handle, handler, interest, opts); the caller passes a
\* handle that is not in use.  A full table keeps nothing of the handle, so
\* there the call stands for one with any further handle.
Register(h, interest, ok) ==
    /\ Alive
    /\ HandleFree(h) \/ ~SlabHasRoom(handlers)
    /\ UNCHANGED <<tokens_to_remove, events, running, polled, cleaned, hvars>>
    /\ IF ~SlabHasRoom(handlers)
         THEN /\ last' = Call("register", NoToken, CannotAllocate, "none", FALSE)
              /\ UNCHANGED <<handlers, poll, outstanding, os_failed, dup_register>>
         ELSE LET token == SlabNextToken(handlers)
                  res == PollCall(poll, "register", h, token, interest, ok)
              IN
              /\ handlers' = SlabInsert(handlers, SelectionHandler(h, TRUE))
              /\ poll' = res.poll
              /\ last' = Call("register", IF res.ok THEN token ELSE NoToken,
                              Result(res.ok), "register", FALSE)
              /\ outstanding' = IF res.ok THEN [outstanding EXCEPT ![h] = token]
                                          ELSE outstanding
              /\ os_failed' = (os_failed \/ ~res.ok)
              /\ dup_register' = (dup_register \/ poll[h].registered)

\* a call with a token the table does not hold: expect("Token not found")
TokenNotFound(op, token) ==
    /\ last' = Call(op, token, "abort", "none", FALSE)
    /\ UNCHANGED <<handlers, tokens_to_remove, poll, events, running,
                   outstanding, polled, cleaned, os_failed, dup_register>>

\* the choice as it would be without the look at the registered flag
ReregisterCall_NoFlag(interest, registered) ==
    IF interest = 0 THEN "deregister" ELSE "reregister"

\* the OS call reregister issues for an interest and a registered flag
ReregisterCall(interest, registered) ==
    IF interest = 0
      THEN IF registered THEN "deregister" ELSE "none"
      ELSE IF ~registered THEN "register" ELSE "reregister"

\* the flag as it would be if an empty interest did not clear it
ReregisterFlag_NotCleared(interest, registered) ==
    IF interest = 0
      THEN registered
      ELSE IF ~registered THEN TRUE ELSE registered

\* the registered flag reregister leaves, assigned before the OS call
ReregisterFlag(interest, registered) ==
    IF interest = 0
      THEN IF registered THEN FALSE ELSE registered
      ELSE IF ~registered THEN TRUE ELSE registered

\* Selector::reregister(handle, token, interest, opts); the caller passes
\* the handle it registered under the token
Reregister(token, interest, ok) ==
    /\ Alive
    /\ UNCHANGED hvars
    /\ IF ~SlabContains(handlers, token)
         THEN TokenNotFound("reregister", token)
         ELSE LET selection_handler == SlabGet(handlers, token)
                  h == selection_handler.handler
                  call == ReregisterCall(interest, selection_handler.registered)
                  flag == ReregisterFlag(interest, selection_handler.registered)
                  res == PollCall(poll, call, h, token, interest, ok)
              IN
              /\ handlers' = SlabSetRegistered(handlers, token, flag)
              /\ poll' = res.poll
              /\ last' = Call("reregister", token, Result(res.ok), call, FALSE)
              /\ os_failed' = (os_failed \/ ~res.ok)
              /\ dup_register' =
                     (dup_register \/ (call = "register" /\ poll[h].registered))
              /\ UNCHANGED <<tokens_to_remove, events, running, outstanding,
                             polled, cleaned>>

\* the longest pending-removal vector: deregister is not called on a present
\* token beyond it
MaxPending == 2

\* deregister as it would be if it freed the slot at once instead of
\* deferring the removal to clean_removed_tokens
Deregister_Eager(token, ok) ==
    /\ Alive
    /\ Len(tokens_to_remove) < MaxPending \/ ~SlabContains(handlers, token)
    /\ UNCHANGED hvars
    /\ IF ~SlabContains(handlers, token)
         THEN TokenNotFound("deregister", token)
         ELSE LET selection_handler == SlabGet(handlers, token)
                  h == selection_handler.handler
                  call == IF selection_handler.registered THEN "deregister"
                                                          ELSE "none"
                  res == PollCall(poll, call, h, token, 0, ok)
              IN
              /\ poll' = res.poll
              /\ handlers' = IF res.ok THEN SlabRemove(handlers, token)
                                       ELSE handlers
              /\ last' = Call("deregister", token, Result(res.ok), call, FALSE)
              /\ os_failed' = (os_failed \/ ~res.ok)
              /\ UNCHANGED <<tokens_to_remove, events, running, outstanding,
                             polled, cleaned, dup_register>>

\* Selector::deregister(handle, token)
Deregister(token, ok) ==
    /\ Alive
    /\ Len(tokens_to_remove) < MaxPending \/ ~SlabContains(handlers, token)
    /\ UNCHANGED hvars
    /\ IF ~SlabContains(handlers, token)
         THEN TokenNotFound("deregister", token)
         ELSE LET selection_handler == SlabGet(handlers, token)
                  h == selection_handler.handler
                  call == IF selection_handler.registered THEN "deregister"
                                                          ELSE "none"
                  res == PollCall(poll, call, h, token, 0, ok)
              IN
              /\ poll' = res.poll
              /\ tokens_to_remove' = IF res.ok THEN Append(tokens_to_remove, token)
                                               ELSE tokens_to_remove
              /\ last' = Call("deregister", token, Result(res.ok), call, FALSE)
              /\ os_failed' = (os_failed \/ ~res.ok)
              /\ UNCHANGED <<handlers, events, running, outstanding, polled,
                             cleaned, dup_register>>

\* the loop as it would be if it stopped after the first token
CleanLoop_FirstOnly(s, tokens) ==
    IF tokens = <<>>
      THEN [handlers |-> s, ok |-> TRUE]
      ELSE IF SlabContains(s, Head(tokens))
             THEN [handlers |-> SlabRemove(s, Head(tokens)), ok |-> TRUE]
             ELSE [handlers |-> s, ok |-> FALSE]

\* the loop of clean_removed_tokens: handlers.remove(token).expect(..) for
\* each token in turn; ok is FALSE when a remove finds no slot (panic)
RECURSIVE CleanLoop(_, _)
CleanLoop(s, tokens) ==
    IF tokens = <<>>
      THEN [handlers |-> s, ok |-> TRUE]
      ELSE IF SlabContains(s, Head(tokens))
             THEN CleanLoop(SlabRemove(s, Head(tokens)), Tail(tokens))
             ELSE [handlers |-> s, ok |-> FALSE]

\* Selector::clean_removed_tokens()
CleanRemovedTokens ==
    /\ Alive
    /\ UNCHANGED hvars
    /\ LET res == CleanLoop(handlers, tokens_to_remove)
           freed == Present(handlers) \ Present(res.handlers)
       IN
       /\ handlers' = res.handlers
       /\ tokens_to_remove' = IF res.ok THEN <<>> ELSE tokens_to_remove
       /\ last' = Call("clean_removed_tokens", NoToken,
                       IF res.ok THEN "ok" ELSE "abort", "none", FALSE)
       /\ outstanding' = [h \in Handles |->
                            IF outstanding[h] \in freed THEN NoToken
                                                        ELSE outstanding[h]]
       /\ cleaned' = TRUE
       /\ UNCHANGED <<poll, events, running, polled, os_failed, dup_register>>

\* the batches poll() can return: events of distinct registered handles,
\* each carrying the token its handle is registered under
Batches(p) ==
    LET ready == {h \in Handles : p[h].registered}
        picks == UNION {[1 .. n -> ready] : n \in 0 .. MaxEvents}
    IN {[i \in 1 .. Len(s) |-> p[s[i]].token] :
           s \in {q \in picks : \A i, j \in 1 .. Len(q) : i # j => q[i] # q[j]}}

\* Selector::poll(events, timeout), called by the dispatch loop when no
\* handler runs; a failed poll delivers no event
Poll(batch, ok) ==
    /\ Alive
    /\ running = <<>>
    /\ batch \in Batches(poll)
    /\ events' = IF ok THEN batch ELSE <<>>
    /\ polled' = Present(handlers) \ Range(tokens_to_remove)
    /\ cleaned' = FALSE
    /\ last' = Call("poll", NoToken, Result(ok), "poll", FALSE)
    /\ os_failed' = (os_failed \/ ~ok)
    /\ UNCHANGED <<handlers, tokens_to_remove, poll, running, outstanding,
                   dup_register, hvars>>

\* the borrow as it would be without the RefCell's check
CanBorrow_Unchecked(h) == TRUE

\* handler.borrow_mut() succeeds: no on_ready of this handler is in progress
CanBorrow(h) == \A i \in 1 .. Len(running) : running[i].handler # h

\* Selector::run_handler(event) up to the entry into on_ready
RunHandlerCall(token, batch) ==
    /\ UNCHANGED <<handlers, tokens_to_remove, poll, outstanding, polled,
                   cleaned, os_failed, dup_register, hvars>>
    /\ IF ~SlabContains(handlers, token)
         THEN /\ last' = Call("run_handler", token, "abort", "none", batch)
              /\ UNCHANGED running
         ELSE LET handler == SlabGet(handlers, token).handler IN
              IF CanBorrow(handler)
                THEN /\ running' = Append(running,
                            [handler |-> handler, token |-> token, batch |-> batch])
                     /\ last' = Call("run_handler", token, "entered", "none", batch)
                ELSE /\ last' = Call("run_handler", token, "abort", "none", batch)
                     /\ UNCHANGED running

\* the dispatch loop calls run_handler on the next event of the batch
Dispatch ==
    /\ Alive
    /\ running = <<>>
    /\ events # <<>>
    /\ events' = Tail(events)
    /\ RunHandlerCall(Head(events), TRUE)

\* run_handler on an event that is not taken from the batch: from inside a
\* handler, or with a token the caller kept
RunHandler(token) ==
    /\ Alive
    /\ Len(running) < MaxDepth
    /\ UNCHANGED events
    /\ RunHandlerCall(token, FALSE)

\* on_ready returns: the borrow ends and run_handler returns
OnReadyReturns ==
    /\ Alive
    /\ running # <<>>
    /\ LET top == running[Len(running)] IN
       /\ running' = SubSeq(running, 1, Len(running) - 1)
       /\ last' = Call("run_handler", top.token, "ok", "none", top.batch)
    /\ UNCHANGED <<handlers, tokens_to_remove, poll, events, outstanding,
                   polled, cleaned, os_failed, dup_register, hvars>>

\* register, reregister, deregister and clean_removed_tokens called in any
\* order; oks holds the outcomes the environment may give an OS call
Methods(oks, interests) ==
    \/ \E h \in Handles, interest \in interests, ok \in oks :
           Register(h, interest, ok)
    \/ \E token \in TokenValues, interest \in interests, ok \in oks :
           Reregister(token, interest, ok)
    \/ \E token \in TokenValues, ok \in oks : Deregister(token, ok)
    \/ CleanRemovedTokens

\* the four methods, with OS calls that may fail
Next == Methods(BOOLEAN, Interests)

Spec == Init /\ [][Next]_vars

\* the four methods and run_handler, called from the top level and from
\* inside handlers; OS calls fail only when the poller rejects them
HandlerNext ==
    \/ Methods({TRUE}, Interests)
    \/ \E token \in TokenValues : RunHandler(token)
    \/ OnReadyReturns

HandlerSpec == Init /\ [][HandlerNext]_vars

\* the Selector under its dispatch loop: poll, then run_handler on each
\* event of the batch, the handlers calling the four methods meanwhile
DispatchNext ==
    \/ Methods({TRUE}, {0, 1})
    \/ \E batch \in Batches(poll) : Poll(batch, TRUE)
    \/ Dispatch
    \/ OnReadyReturns

DispatchSpec == Init /\ [][DispatchNext]_vars

---------------------------------------------------------------------------
(* Properties of the reactor *)

\* the handles whose owner holds the token
Holders(token) == {h \in Handles : outstanding[h] = token}

\* C1: the tokens held by the owners of registrations (returned by register
\* and not freed by clean_removed_tokens since) are pairwise distinct, and
\* each names the slot of its own registration, active or pending removal; so
\* register never returns a token that is still held.
C1_TokensDistinct ==
    /\ \A h \in Handles : outstanding[h] # NoToken =>
           /\ SlabContains(handlers, outstanding[h])
           /\ SlabGet(handlers, outstanding[h]).handler = h
    /\ \A h1, h2 \in Handles :
           (h1 # h2 /\ outstanding[h1] # NoToken /\ outstanding[h2] # NoToken)
               => outstanding[h1] # outstanding[h2]
    /\ (last.op = "register" /\ last.result = "ok") =>
           Cardinality(Holders(last.token)) = 1

\* token 0 is returned again, after its cleanup, while token 1 is still held
\* (no OS call has failed, so token 0 was returned before token 1 was)
C1_Witness ==
    /\ ~os_failed
    /\ last.op = "register" /\ last.result = "ok" /\ last.token = 0
    /\ Holders(1) # {}
    /\ Holders(0) # {}

\* C2: while clean_removed_tokens has not been called since poll() returned
\* the batch, every slot that was active when the batch was polled is still
\* in the table, also when a handler has deregistered it meanwhile; so
\* run_handler on an event of the batch with such a token finds the slot and
\* does not abort.
C2_SlotsKeptDuringBatch ==
    /\ ~cleaned => polled \subseteq Present(handlers)
    /\ (~cleaned /\ last.op = "run_handler" /\ last.batch /\ last.token \in polled)
           => last.result # "abort"

\* run_handler has completed on an event of the batch whose token was
\* deregistered after the batch was polled, before any cleanup
C2_Witness ==
    /\ ~cleaned
    /\ last.op = "run_handler" /\ last.batch /\ last.result = "ok"
    /\ last.token \in polled
    /\ last.token \in Range(tokens_to_remove)

\* the tokens the next n successful handlers.insert calls return
RECURSIVE NextTokens(_, _)
NextTokens(s, n) ==
    IF n = 0 \/ ~SlabHasRoom(s)
      THEN {}
      ELSE {SlabNextToken(s)}
             \cup NextTokens(SlabInsert(s, SelectionHandler(1, TRUE)), n - 1)

\* C3: a clean_removed_tokens call that returns frees exactly the marked
\* slots: the marked tokens are absent, the pending-removal vector is empty,
\* every other slot is present and unchanged, and the freed tokens are the
\* ones the next register calls return.
C3_CleanFreesMarked ==
    [][(last'.op = "clean_removed_tokens" /\ last'.result = "ok") =>
         LET marked == Range(tokens_to_remove) IN
         /\ Present(handlers') = Present(handlers) \ marked
         /\ tokens_to_remove' = <<>>
         /\ \A t \in Present(handlers') :
                SlabGet(handlers', t) = SlabGet(handlers, t)
         /\ NextTokens(handlers', Cardinality(marked)) = marked
      ]_vars

\* a cleanup has freed slot 0 and kept slot 1
C3_Witness ==
    /\ last.op = "clean_removed_tokens" /\ last.result = "ok"
    /\ ~SlabContains(handlers, 0)
    /\ SlabContains(handlers, 1)

\* a call of reregister, deregister or run_handler with the token (and not
\* the return of a run_handler call made earlier)
CallWith(token) ==
    /\ last'.token = token
    /\ \/ last'.op \in {"reregister", "deregister"}
       \/ last'.op = "run_handler" /\ Len(running') >= Len(running)

\* C4: a call of reregister, deregister or run_handler with a token that no
\* owner holds (never returned by register, or freed by clean_removed_tokens
\* and not returned again) aborts and changes neither the table nor the
\* pending-removal vector.
C4_UnheldTokenAborts ==
    [][\A token \in TokenValues :
          (Holders(token) = {} /\ CallWith(token)) =>
              /\ last'.result = "abort"
              /\ handlers' = handlers
              /\ tokens_to_remove' = tokens_to_remove
      ]_vars

\* what holds of the code instead: the call aborts when the table holds no
\* slot under the token
C4_AbsentTokenAborts ==
    [][\A token \in TokenValues :
          (~SlabContains(handlers, token) /\ CallWith(token)) =>
              /\ last'.result = "abort"
              /\ handlers' = handlers
              /\ tokens_to_remove' = tokens_to_remove
      ]_vars

\* C5 as claimed: reregister on a present token deregisters and clears the
\* flag (interest empty, slot registered), registers and sets the flag
\* (interest non-empty, slot unregistered), and in every other case issues a
\* plain OS-level reregister and leaves the flag alone.
C5_ThreeCases ==
    [][\A token \in TokenValues, interest \in Interests, ok \in BOOLEAN :
          (SlabContains(handlers, token) /\ Reregister(token, interest, ok)) =>
              LET before == SlabGet(handlers, token).registered
                  after == SlabGet(handlers', token).registered
              IN
              IF interest = 0 /\ before
                THEN last'.os = "deregister" /\ ~after
                ELSE IF interest # 0 /\ ~before
                       THEN last'.os = "register" /\ after
                       ELSE last'.os = "reregister" /\ after = before
      ]_vars

\* C5, amended: four cases.  Interest empty, slot registered: OS deregister,
\* flag cleared.  Interest non-empty, slot unregistered: OS register, flag
\* set.  Interest non-empty, slot registered: OS reregister, flag unchanged.
\* Interest empty, slot unregistered: no OS call, nothing changes, Ok.  An OS
\* call that succeeds leaves the handle unregistered (deregister) or
\* registered under the token with the interest (register, reregister).
C5_FourCases ==
    [][\A token \in TokenValues, interest \in Interests, ok \in BOOLEAN :
          (SlabContains(handlers, token) /\ Reregister(token, interest, ok)) =>
              LET before == SlabGet(handlers, token).registered
                  after == SlabGet(handlers', token).registered
                  h == SlabGet(handlers, token).handler
                  done == last'.result = "ok"
              IN
              CASE interest = 0 /\ before ->
                     /\ last'.os = "deregister" /\ ~after
                     /\ done => ~poll'[h].registered
                [] interest # 0 /\ ~before ->
                     /\ last'.os = "register" /\ after
                     /\ done => poll'[h] = Reg(token, interest)
                [] interest # 0 /\ before ->
                     /\ last'.os = "reregister" /\ after
                     /\ done => poll'[h] = Reg(token, interest)
                [] OTHER ->
                     /\ last'.os = "none" /\ ~after /\ done
                     /\ poll' = poll /\ handlers' = handlers
      ]_vars

\* reregister with an empty interest has returned on an unregistered slot
C5_Witness ==
    /\ last.op = "reregister" /\ last.result = "ok" /\ last.os = "none"
    /\ SlabContains(handlers, last.token)
    /\ ~SlabGet(handlers, last.token).registered

\* C6: when no OS call has failed, the token is held by the owner of the
\* handle, the last call was reregister with an empty interest on it, and
\* reregister is now called with a non-empty interest and the OS lets the
\* call succeed: the call returns Ok, it issued an OS register on a handle
\* that was not registered, and it leaves the handle registered under the
\* token with that interest and the flag set.
C6_RoundTrip ==
    [][\A token \in TokenValues, interest \in Interests \ {0} :
          ( /\ ~os_failed
            /\ Holders(token) # {}
            /\ last.op = "reregister" /\ last.token = token
            /\ last.os \in {"deregister", "none"}
            /\ Reregister(token, interest, TRUE) ) =>
              LET h == SlabGet(handlers, token).handler IN
              /\ last'.result = "ok"
              /\ last'.os = "register" /\ ~poll[h].registered
              /\ poll'[h] = Reg(token, interest)
              /\ SlabGet(handlers', token).registered
              /\ ~dup_register'
      ]_vars

\* the round trip has been made: with no OS call failed, a reregister has
\* registered the handle again, as writable
C6_Witness ==
    /\ ~os_failed
    /\ last.op = "reregister" /\ last.os = "register" /\ last.result = "ok"
    /\ Holders(last.token) # {}
    /\ \E h \in Holders(last.token) : poll[h] = Reg(last.token, 2)

\* C7: when no OS call has failed, the registered flag of every slot in the
\* table, pending removal or not, tells whether the slot's handle is
\* registered with the OS poller.
C7_FlagMatchesPoll ==
    ~os_failed =>
        \A t \in Present(handlers) :
            SlabGet(handlers, t).registered
                = poll[SlabGet(handlers, t).handler].registered

\* C8: the table never holds more than Capacity slots, and register on a
\* full table returns an error without an OS call, leaving the table, the
\* poller and the pending-removal vector as they were.
C8_FullTableIsAnError ==
    /\ [](Len(handlers.entries) <= Capacity)
    /\ [][(last'.op = "register"
            /\ Cardinality(Present(handlers)) = Capacity) =>
              /\ last'.result = "err" /\ last'.os = "none"
              /\ handlers' = handlers
              /\ poll' = poll
              /\ tokens_to_remove' = tokens_to_remove
         ]_vars

\* register has returned an error without calling the OS
C8_Witness ==
    /\ last.op = "register" /\ last.result = "err" /\ last.os = "none"
    /\ Cardinality(Present(handlers)) = Capacity

\* C16: once deregister has marked a token for removal, no call before
\* clean_removed_tokens takes the token out of the pending-removal vector or
\* registers the slot's handle with the OS poller again, and
\* clean_removed_tokens frees no slot whose handle is registered with the OS
\* poller; stated for the behaviours in which no OS call has failed.
C16_NoWayBack ==
    [][~os_failed' =>
        /\ \A t \in Range(tokens_to_remove) :
               (SlabContains(handlers, t)
                   /\ last'.op # "clean_removed_tokens") =>
                   /\ t \in Range(tokens_to_remove')
                   /\ SlabContains(handlers', t)
                   /\ ~poll[SlabGet(handlers, t).handler].registered
                          => ~poll'[SlabGet(handlers, t).handler].registered
        /\ last'.op = "clean_removed_tokens" =>
               \A t \in Present(handlers) \ Present(handlers') :
                   ~poll[SlabGet(handlers, t).handler].registered
      ]_vars

\* C17: no handler has two invocations of on_ready in progress: run_handler
\* on a token whose handler is already running aborts and enters nothing,
\* run_handler on a token whose handler is not running enters it, also from
\* inside another handler.
C17_NoReentry ==
    /\ [](\A i, j \in 1 .. Len(running) :
            i # j => running[i].handler # running[j].handler)
    /\ [][\A token \in TokenValues :
            (RunHandler(token) /\ SlabContains(handlers, token)) =>
                IF \E i \in 1 .. Len(running) :
                       running[i].handler = SlabGet(handlers, token).handler
                  THEN last'.result = "abort" /\ running' = running
                  ELSE /\ last'.result = "entered"
                       /\ Len(running') = Len(running) + 1
                       /\ running'[Len(running')].token = token
                       /\ running'[Len(running')].handler =
                              SlabGet(handlers, token).handler
         ]_vars

\* run_handler on token T, called from inside the on_ready of the handler
\* of T's slot, has aborted
C17_Witness ==
    /\ last.op = "run_handler" /\ last.result = "abort"
    /\ SlabContains(handlers, last.token)
    /\ \E i \in 1 .. Len(running) :
           /\ running[i].token = last.token
           /\ running[i].handler = SlabGet(handlers, last.token).handler

\* C18: when the OS registration fails inside register, register returns the
\* error and the table holds the slots it held before the call: none stays
\* allocated and the next token to be issued is the same.
C18_FailedRegisterLeavesNoSlot ==
    [][(last'.op = "register" /\ last'.result = "err"
            /\ last'.os = "register") =>
          /\ Present(handlers') = Present(handlers)
          /\ SlabNextToken(handlers') = SlabNextToken(handlers)
      ]_vars

\* C19: when the OS call of reregister fails on a slot whose registered flag
\* matched the poller, reregister returns the error, the flag keeps its
\* value and still matches the poller.
C19_FailedReregisterKeepsFlag ==
    [][\A token \in TokenValues, interest \in Interests, ok \in BOOLEAN :
        (/\ Reregister(token, interest, ok)
         /\ SlabContains(handlers, token)
         /\ SlabGet(handlers, token).registered
                = poll[SlabGet(handlers, token).handler].registered
         /\ last'.os # "none"
         /\ last'.result = "err") =>
            /\ SlabGet(handlers', token).registered
                   = SlabGet(handlers, token).registered
            /\ SlabGet(handlers', token).registered
                   = poll'[SlabGet(handlers', token).handler].registered
      ]_vars

\* C20: the pending-removal vector never holds a token twice nor a token
\* absent from the table, and clean_removed_tokens does not abort; stated
\* for the behaviours in which no OS call has failed, where every deregister
\* on a present token has returned success.
C20_CleanNeverAborts ==
    ~os_failed =>
        /\ \A i, j \in 1 .. Len(tokens_to_remove) :
               i # j => tokens_to_remove[i] # tokens_to_remove[j]
        /\ Range(tokens_to_remove) \subseteq Present(handlers)
        /\ ~(last.op = "clean_removed_tokens" /\ last.result = "abort")

---------------------------------------------------------------------------
(* The IPv4 header codec.  A buffer is a sequence of bytes; byte i of the   *)
(* source (from 0) is element i + 1.                                        *)

\* bytes a buffer may hold beyond the 20 of the header without options
MaxExtra == 4

\* x >> n
Shr(x, n) == x \div (2 ^ n)

\* x << n in a u8
Shl8(x, n) == (x * (2 ^ n)) % 256

\* x & y on the low n bits
RECURSIVE BitAnd(_, _, _)
BitAnd(x, y, n) ==
    IF n = 0 THEN 0
             ELSE (x % 2) * (y % 2) + 2 * BitAnd(x \div 2, y \div 2, n - 1)

\* big-endian read of the n bytes raw[off .. off + n), as BigEndian::read_u16
\* and BigEndian::read_u32 do
RECURSIVE ReadBE(_, _, _)
ReadBE(b, off, n) ==
    IF n = 0 THEN 0
             ELSE ReadBE(b, off, n - 1) * 256 + b[off + n]

\* the read as it would be in little-endian order
RECURSIVE ReadLE(_, _, _)
ReadLE(b, off, n) ==
    IF n = 0 THEN 0
             ELSE b[off + 1] + 256 * ReadLE(b, off + 1, n - 1)

read_u16_LE(b, off) == ReadLE(b, off, 2)

\* BigEndian::read_u16(&raw[off..off + 2])
read_u16(b, off) == ReadBE(b, off, 2)

\* BigEndian::read_u32(&raw[off..off + 4]).  A u32 is held as its two 16-bit
\* halves <<high, low>>: TLC's integers end at 2^31 - 1.
read_u32(b, off) == <<ReadBE(b, off, 2), ReadBE(b, off + 2, 2)>>

\* match raw[9] { 6 => TCP, 17 => UDP, _ => OTHER }
ProtocolOf(byte) ==
    CASE byte = 6  -> "TCP"
      [] byte = 17 -> "UDP"
      [] OTHER     -> "OTHER"

\* the version as it would be without the shift
version_of_NoShift(byte) == byte

\* raw[0] >> 4
version_of(byte) == Shr(byte, 4)

\* IPv4HeaderData::parse(raw), for a buffer of at least 20 bytes
parse(b) ==
    [version       |-> version_of(b[1]),
     header_length |-> Shl8(BitAnd(b[1], 15, 8), 2),
     total_length  |-> read_u16(b, 2),
     protocol      |-> ProtocolOf(b[10]),
     source        |-> read_u32(b, 12),
     destination   |-> read_u32(b, 16)]

\* the test as it would be with the bound off by one
peek_available_OffByOne(b) == Len(b) > 4

\* raw.len() >= 4 in peek_version_length
peek_available(b) == Len(b) >= 4

\* peek_version_length(raw): None is <<>>, Some((version, length)) the pair
peek_version_length(b) ==
    IF peek_available(b)
      THEN <<version_of(b[1]), read_u16(b, 2)>>
      ELSE <<>>

\* the buffers the codec is applied to: a header, cut or extended to every
\* length up to 20 + MaxExtra, the bytes no field covers all set to fill
Buffer(len, b0, tl, proto, src, dst, fill) ==
    LET header == <<b0, fill, tl[1], tl[2], fill, fill, fill, fill, fill,
                    proto, fill, fill>> \o src \o dst
    IN [i \in 1 .. len |-> IF i <= 20 THEN header[i] ELSE fill]

Buffers ==
    {Buffer(len, b0, tl, proto, src, dst, fill) :
        len \in 0 .. 20 + MaxExtra,
        b0 \in {69, 79, 96, 245},
        tl \in {<<0, 28>>, <<1, 35>>, <<255, 254>>},
        proto \in {0, 6, 17, 255},
        src \in {<<18, 52, 86, 120>>, <<255, 0, 0, 1>>},
        dst \in {<<66, 66, 66, 66>>, <<0, 1, 2, 255>>},
        fill \in {0, 165}}

\* a caller holds a buffer
HeaderInit ==
    /\ SelectorNew
    /\ raw \in Buffers
    /\ data = NoData
    /\ peeked = <<>>
    /\ hcall = "none"

\* a slice index out of range has panicked
HeaderAlive == hcall # "abort"

\* let data = IPv4HeaderData::parse(raw); a buffer shorter than 20 bytes
\* makes an index or slice of parse panic
Parse ==
    /\ HeaderAlive
    /\ IF Len(raw) >= 20
         THEN data' = parse(raw) /\ hcall' = "parse"
         ELSE data' = data /\ hcall' = "abort"
    /\ UNCHANGED <<raw, peeked, svars>>

\* let peeked = peek_version_length(raw)
PeekVersionLength ==
    /\ HeaderAlive
    /\ peeked' = peek_version_length(raw)
    /\ hcall' = "peek"
    /\ UNCHANGED <<raw, data, svars>>

HeaderNext ==
    \/ Parse
    \/ PeekVersionLength

HeaderSpec == HeaderInit /\ [][HeaderNext]_vars

---------------------------------------------------------------------------
(* The mutable view IPv4HeaderMut: the fields and the buffer they were       *)
(* parsed from, written together.  A view is the record of both.             *)

\* the write as it would be in little-endian order
write_u16_LE(b, off, x) ==
    [b EXCEPT ![off + 1] = x % 256, ![off + 2] = x \div 256]

\* BigEndian::write_u16(&mut raw[off..off + 2], x)
write_u16(b, off, x) ==
    [b EXCEPT ![off + 1] = x \div 256, ![off + 2] = x % 256]

\* BigEndian::write_u32(&mut raw[off..off + 4], x), x held as <<high, low>>
write_u32(b, off, x) == write_u16(write_u16(b, off, x[1]), off + 2, x[2])

\* IPv4HeaderMut { raw, data }
View == [raw |-> raw, data |-> data]

\* the caller holds data.bind_mut(raw) of the data parsed from raw: a parse
\* has succeeded and only the view has been used since
Bound == hcall \notin {"none", "peek", "abort"}

\* set_total_length(total_length)
set_total_length(v, x) ==
    [raw  |-> write_u16(v.raw, 2, x),
     data |-> [v.data EXCEPT !.total_length = x]]

\* the setter as it would be with the offset of set_destination
set_source_At16(v, x) ==
    [raw  |-> write_u32(v.raw, 16, x),
     data |-> [v.data EXCEPT !.source = x]]

\* set_source(source)
set_source(v, x) ==
    [raw  |-> write_u32(v.raw, 12, x),
     data |-> [v.data EXCEPT !.source = x]]

\* set_destination(destination)
set_destination(v, x) ==
    [raw  |-> write_u32(v.raw, 16, x),
     data |-> [v.data EXCEPT !.destination = x]]

\* for i in from..to { raw.swap(i, i + 4) }
RECURSIVE SwapLoop(_, _, _)
SwapLoop(b, from, to) ==
    IF from >= to
      THEN b
      ELSE SwapLoop([b EXCEPT ![from + 1] = b[from + 5],
                              ![from + 5] = b[from + 1]], from + 1, to)

\* the swap as it would be on the fields alone
swap_fields_only(v) ==
    [raw  |-> v.raw,
     data |-> [v.data EXCEPT !.source = v.data.destination,
                             !.destination = v.data.source]]

\* swap_source_and_destination()
swap_source_and_destination(v) ==
    [raw  |-> SwapLoop(v.raw, 12, 16),
     data |-> [v.data EXCEPT !.source = v.data.destination,
                             !.destination = v.data.source]]

\* set_checksum(checksum)
set_checksum(v, x) == [raw |-> write_u16(v.raw, 10, x), data |-> v.data]

\* checksum()
checksum(v) == read_u16(v.raw, 10)

\* compute_checksum as it would be without the reset of the field
checksum_reset_Skipped(v) == v

\* self.set_checksum(0) at the start of compute_checksum
checksum_reset(v) == set_checksum(v, 0)

\* (0..j).map(|i| read_u16(&raw[2 * i..2 * (i + 1)]) as u32).sum::<u32>()
RECURSIVE SumWords(_, _)
SumWords(b, j) ==
    IF j = 0 THEN 0
             ELSE SumWords(b, j - 1) + read_u16(b, 2 * (j - 1))

\* the fold as it would be if the carries were dropped
Fold_Truncated(sum) == sum % 65536

\* while (sum & !0xffff) != 0 { sum = (sum & 0xffff) + (sum >> 16) }
RECURSIVE Fold(_)
Fold(sum) ==
    IF Shr(sum, 16) # 0
      THEN Fold((sum % 65536) + Shr(sum, 16))
      ELSE sum

\* !sum as u16: the low 16 bits of the complement of a u32
NotAsU16(sum) == 65535 - (sum % 65536)

\* the words compute_checksum sums lie inside the buffer
checksum_in_range(v) == 2 * (v.data.header_length \div 2) <= Len(v.raw)

\* compute_checksum(), for a header whose words lie inside the buffer
compute_checksum(v) ==
    LET reset == checksum_reset(v)
        j     == v.data.header_length \div 2
        sum   == Fold(SumWords(reset.raw, j))
    IN set_checksum(reset, NotAsU16(sum))

\* the values the callers write
Lengths == {42, 65535}
Sources == {<<34661, 17185>>}
Destinations == {<<9252, 9252>>, <<65535, 65535>>}
Checksums == {121}

\* the call returns, leaving the view v behind
Returns(v, call) ==
    /\ raw' = v.raw
    /\ data' = v.data
    /\ hcall' = call
    /\ UNCHANGED <<peeked, svars>>

SetTotalLength(x) == Bound /\ Returns(set_total_length(View, x), "set_total_length")

SetSource(x) == Bound /\ Returns(set_source(View, x), "set_source")

SetDestination(x) == Bound /\ Returns(set_destination(View, x), "set_destination")

SwapSourceAndDestination ==
    Bound /\ Returns(swap_source_and_destination(View), "swap")

SetChecksum(x) == Bound /\ Returns(set_checksum(View, x), "set_checksum")

\* compute_checksum(): a header_length beyond the buffer makes the slice of
\* the sum panic, after the field has been reset
ComputeChecksum ==
    /\ Bound
    /\ IF checksum_in_range(View)
         THEN Returns(compute_checksum(View), "compute_checksum")
         ELSE Returns(checksum_reset(View), "abort")

\* the buffers a view is made on: headers of 20 bytes, with and without
\* trailing bytes, whose header_length is 0, 20, 24 and 60
ViewBuffers ==
    {Buffer(len, b0, tl, 17, <<18, 52, 86, 120>>, <<66, 66, 66, 66>>, fill) :
        len \in {20, 20 + MaxExtra},
        b0 \in {64, 69, 70, 79},
        tl \in {<<0, 28>>, <<255, 254>>},
        fill \in {0, 165}}

ViewInit ==
    /\ SelectorNew
    /\ raw \in ViewBuffers
    /\ data = NoData
    /\ peeked = <<>>
    /\ hcall = "none"

ViewNext ==
    \/ Parse
    \/ \E x \in Lengths : SetTotalLength(x)
    \/ \E x \in Sources : SetSource(x)
    \/ \E x \in Destinations : SetDestination(x)
    \/ SwapSourceAndDestination
    \/ \E x \in Checksums : SetChecksum(x)
    \/ ComputeChecksum

ViewSpec == ViewInit /\ [][ViewNext]_vars

---------------------------------------------------------------------------
(* Properties of the codec *)

\* C9: after parse on a buffer of at least 20 bytes, version is byte 0
\* shifted right by 4, header_length is 4 times the low nibble of byte 0,
\* total_length is bytes 2-3 big-endian, protocol is TCP for byte 9 = 6, UDP
\* for 17 and OTHER otherwise, source is bytes 12-15 and destination bytes
\* 16-19 big-endian; no other byte matters and parse leaves the buffer as it
\* was.
C9_ParseFields ==
    /\ [](hcall = "parse" =>
            /\ Len(raw) >= 20
            /\ data.version * 16 + data.header_length \div 4 = raw[1]
            /\ data.header_length % 4 = 0
            /\ data.version \in 0 .. 15 /\ data.header_length \in 0 .. 60
            /\ data.total_length = raw[3] * 256 + raw[4]
            /\ (data.protocol = "TCP") = (raw[10] = 6)
            /\ (data.protocol = "UDP") = (raw[10] = 17)
            /\ (data.protocol = "OTHER") = (raw[10] \notin {6, 17})
            /\ data.source = <<raw[13] * 256 + raw[14], raw[15] * 256 + raw[16]>>
            /\ data.destination =
                   <<raw[17] * 256 + raw[18], raw[19] * 256 + raw[20]>>)
    /\ [][hcall' = "parse" => raw' = raw]_vars

\* a UDP header with options and trailing bytes has been parsed
C9_Witness ==
    /\ hcall = "parse"
    /\ Len(raw) = 20 + MaxExtra
    /\ data.version = 4 /\ data.header_length = 60
    /\ data.protocol = "UDP" /\ data.total_length = 65534
    /\ data.source = <<65280, 1>>

SameOutside(b, c, off, n) ==
    /\ Len(b) = Len(c)
    /\ \A i \in 1 .. Len(b) : i \notin off + 1 .. off + n => b[i] = c[i]

\* C11: after set_total_length(x), set_source(x) or set_destination(x) the
\* getter of that field returns x, the bytes at the field's offset (2-3,
\* 12-15, 16-19) hold x big-endian, and every other byte of the buffer and
\* every other field is as it was.
C11_SettersWriteBoth ==
    /\ [][\A x \in Lengths : SetTotalLength(x) =>
            /\ data'.total_length = x
            /\ raw'[3] * 256 + raw'[4] = x
            /\ SameOutside(raw', raw, 2, 2)
            /\ data' = [data EXCEPT !.total_length = x]]_vars
    /\ [][\A x \in Sources : SetSource(x) =>
            /\ data'.source = x
            /\ <<raw'[13] * 256 + raw'[14], raw'[15] * 256 + raw'[16]>> = x
            /\ SameOutside(raw', raw, 12, 4)
            /\ data' = [data EXCEPT !.source = x]]_vars
    /\ [][\A x \in Destinations : SetDestination(x) =>
            /\ data'.destination = x
            /\ <<raw'[17] * 256 + raw'[18], raw'[19] * 256 + raw'[20]>> = x
            /\ SameOutside(raw', raw, 16, 4)
            /\ data' = [data EXCEPT !.destination = x]]_vars

\* set_total_length(42) has returned on a header with trailing bytes whose
\* source and destination had been set before
C11_Witness ==
    /\ hcall = "set_total_length"
    /\ Len(raw) = 20 + MaxExtra
    /\ data.total_length = 42 /\ raw[3] = 0 /\ raw[4] = 42
    /\ data.source = <<34661, 17185>>
    /\ data.destination = <<9252, 9252>>

\* C12: for a view bound to the buffer its fields were parsed from, after
\* any sequence of set_total_length, set_source, set_destination,
\* swap_source_and_destination and compute_checksum, parsing the buffer again
\* yields exactly the fields the view holds.
C12_DualWrite == Bound => (Len(raw) >= 20 /\ parse(raw) = data)

\* the three setters, the swap and compute_checksum have all acted on one
\* view, compute_checksum last
C12_Witness ==
    /\ hcall = "compute_checksum"
    /\ data.total_length = 42
    /\ data.source = <<9252, 9252>>
    /\ data.destination = <<34661, 17185>>
    /\ parse(raw) = data

\* C13: swap_source_and_destination exchanges source and destination in the
\* fields and exchanges bytes 12-15 with bytes 16-19 in the buffer, leaving
\* every other field and byte as it was; applied twice it restores the fields
\* and the buffer byte for byte.
C13_Swap ==
    /\ [][SwapSourceAndDestination =>
            /\ data' = [data EXCEPT !.source = data.destination,
                                    !.destination = data.source]
            /\ Len(raw') = Len(raw)
            /\ \A i \in 1 .. Len(raw) :
                   raw'[i] = CASE i \in 13 .. 16 -> raw[i + 4]
                               [] i \in 17 .. 20 -> raw[i - 4]
                               [] OTHER          -> raw[i]]_vars
    /\ [](Bound =>
            swap_source_and_destination(swap_source_and_destination(View))
                = View)

\* the swap has exchanged two addresses that differ in every byte pair, on a
\* header with trailing bytes
C13_Witness ==
    /\ hcall = "swap"
    /\ Len(raw) = 20 + MaxExtra
    /\ data.source = <<16962, 16962>>
    /\ data.destination = <<4660, 22136>>
    /\ <<raw[13], raw[14], raw[15], raw[16]>> = <<66, 66, 66, 66>>
    /\ <<raw[17], raw[18], raw[19], raw[20]>> = <<18, 52, 86, 120>>

\* one's-complement addition of two 16-bit words: the carry out of bit 15 is
\* added back in
OnesAdd(a, b) == IF a + b > 65535 THEN a + b - 65535 ELSE a + b

\* the one's-complement sum of the first j 16-bit big-endian words of b
RECURSIVE OnesSum(_, _)
OnesSum(b, j) ==
    IF j = 0 THEN 0
             ELSE OnesAdd(OnesSum(b, j - 1), b[2 * j - 1] * 256 + b[2 * j])

\* C14: after compute_checksum on a header whose header_length is a multiple
\* of 4, at least 20 and at most the buffer length, the folded sum of all the
\* 16-bit big-endian words of the first header_length bytes, the stored
\* checksum included, is 0xFFFF.
C14_ChecksumIdentity ==
    (/\ hcall = "compute_checksum"
     /\ data.header_length % 4 = 0
     /\ data.header_length >= 20
     /\ data.header_length <= Len(raw))
        => OnesSum(raw, data.header_length \div 2) = 65535

\* compute_checksum has returned on a header of 24 bytes whose words sum
\* past 16 bits
C14_Witness ==
    /\ hcall = "compute_checksum"
    /\ data.header_length = 24
    /\ Len(raw) = 20 + MaxExtra
    /\ SumWords(raw, 12) > 2 * 65536
    /\ checksum(View) \notin {0, 65535}

\* C15: compute_checksum stores in bytes 10-11 the one's complement of the
\* folded sum of the header's words taken with the checksum field as zero;
\* the stored value does not depend on what the field held before, a second
\* call leaves the buffer as the first left it, and no other byte and no
\* field changes.
C15_ChecksumStored ==
    /\ [][(ComputeChecksum /\ hcall' = "compute_checksum") =>
            /\ raw'[11] * 256 + raw'[12] =
                   65535 - OnesSum([raw EXCEPT ![11] = 0, ![12] = 0],
                                   data.header_length \div 2)
            /\ SameOutside(raw', raw, 10, 2)
            /\ data' = data]_vars
    /\ [](Bound /\ checksum_in_range(View) =>
            /\ \A x \in Checksums \cup {0, 65535} :
                   compute_checksum(set_checksum(View, x))
                       = compute_checksum(View)
            /\ compute_checksum(compute_checksum(View))
                   = compute_checksum(View))

\* compute_checksum has returned on the header of 20 bytes
\* 45 00 00 1C 00.. 11 .. 12345678 42424242, whose checksum is 0xCDA1
C15_Witness ==
    /\ hcall = "compute_checksum"
    /\ data.header_length = 20
    /\ data.total_length = 28
    /\ data.source = <<4660, 22136>>
    /\ data.destination = <<16962, 16962>>
    /\ raw[2] = 0
    /\ raw[11] = 205 /\ raw[12] = 161

=============================================================================
